---- MODULE Spec2Model ----
(***************************************************************************)
(* A model of the HAR analyser front end (src/src/App.tsx): the session    *)
(* state held by the App component, the handlers that change it, and the   *)
(* pure computations the component performs while rendering (the entry     *)
(* filter, the capture summary and formatContent).                         *)
(*                                                                         *)
(* JavaScript values are modelled as follows.                              *)
(*   - a string is a sequence of one-character strings;                    *)
(*   - a number, NaN and undefined are records [k, n, d] (a rational n/d); *)
(*   - a nullable reference is a sequence of length 0 (null) or 1;         *)
(*   - selectedEntry, a reference to an entry object of harFile, is the    *)
(*     1-based position of that entry in harFile.log.entries, 0 for null.  *)
(***************************************************************************)
EXTENDS Integers, Sequences, FiniteSets, TLC

\* ------------------------------------------------------------------------
\* Bounds of the model.

\* Longest entry list the pure computations are checked on.
MaxEntries == 3
\* Longest entry list the status classes are checked on.
MaxStatusEntries == 2
\* Most replayRequest calls made in one behaviour.
MaxCalls == 2

\* ------------------------------------------------------------------------
\* JavaScript numbers.

Num(i) == [k |-> "num", n |-> i, d |-> 1]
NaN == [k |-> "nan", n |-> 0, d |-> 1]
Undefined == [k |-> "undef", n |-> 0, d |-> 1]

IsNum(a) == a.k = "num"

\* a + b on numbers; undefined converts to NaN and NaN absorbs.
Add(a, b) ==
    IF IsNum(a) /\ IsNum(b)
    THEN [k |-> "num", n |-> a.n * b.d + b.n * a.d, d |-> a.d * b.d]
    ELSE NaN

\* a / b with an integer divisor count b >= 0; 0/0 is NaN.
DivBy(a, b) ==
    IF ~IsNum(a) THEN NaN
    ELSE IF b = 0 THEN NaN
    ELSE [k |-> "num", n |-> a.n, d |-> a.d * b]

\* a > b; any comparison with NaN or undefined is false.
Gt(a, b) == IsNum(a) /\ IsNum(b) /\ a.n * b.d > b.n * a.d

\* a >= b, same convention.
Ge(a, b) == IsNum(a) /\ IsNum(b) /\ a.n * b.d >= b.n * a.d

IsZero(a) == IsNum(a) /\ a.n = 0

\* Math.max(a, b): NaN when an argument is NaN or undefined.
MathMax(a, b) ==
    IF ~(IsNum(a) /\ IsNum(b)) THEN NaN
    ELSE IF a.n * b.d >= b.n * a.d THEN a ELSE b

\* value || 0 on a number: NaN and 0 are falsy.
OrZero(a) == IF IsNum(a) /\ a.n # 0 THEN a ELSE Num(0)

\* value.toFixed(..) throws a TypeError when value is undefined.
ToFixedThrows(a) == a.k = "undef"

\* ------------------------------------------------------------------------
\* JavaScript strings.

UpperChars == <<"A","B","C","D","E","F","G","H","I","J","K","L","M",
                "N","O","P","Q","R","S","T","U","V","W","X","Y","Z">>
LowerChars == <<"a","b","c","d","e","f","g","h","i","j","k","l","m",
                "n","o","p","q","r","s","t","u","v","w","x","y","z">>

LowerChar(c) ==
    IF \E i \in 1..Len(UpperChars) : UpperChars[i] = c
    THEN LowerChars[CHOOSE i \in 1..Len(UpperChars) : UpperChars[i] = c]
    ELSE c

ToLowerCase(s) == [i \in 1..Len(s) |-> LowerChar(s[i])]

\* s.includes(t)
Includes(s, t) ==
    \E i \in 0..(Len(s) - Len(t)) : SubSeq(s, i + 1, i + Len(t)) = t

\* Truthiness of a string: the empty string is falsy.
Truthy(s) == Len(s) > 0

\* Position of the first occurrence of character c in s, 0 when absent.
IndexOf(s, c) ==
    IF \E i \in 1..Len(s) : s[i] = c
    THEN CHOOSE i \in 1..Len(s) : s[i] = c /\ \A j \in 1..(i - 1) : s[j] # c
    ELSE 0

RECURSIVE Split(_, _)
\* s.split(c) for a one-character separator c.
Split(s, c) ==
    IF IndexOf(s, c) = 0 THEN <<s>>
    ELSE <<SubSeq(s, 1, IndexOf(s, c) - 1)>>
         \o Split(SubSeq(s, IndexOf(s, c) + 1, Len(s)), c)

RECURSIVE Join(_, _)
\* parts.join(c)
Join(parts, c) ==
    IF Len(parts) = 0 THEN <<>>
    ELSE IF Len(parts) = 1 THEN parts[1]
    ELSE parts[1] \o <<c>> \o Join(Tail(parts), c)

RECURSIVE JoinStr(_, _)
\* parts.join(sep) for a separator string sep.
JoinStr(parts, sep) ==
    IF Len(parts) = 0 THEN <<>>
    ELSE IF Len(parts) = 1 THEN parts[1]
    ELSE parts[1] \o sep \o JoinStr(Tail(parts), sep)

DigitChars == <<"0","1","2","3","4","5","6","7","8","9">>

IsDigit(c) == \E i \in 1..Len(DigitChars) : DigitChars[i] = c

DigitValue(c) == (CHOOSE i \in 1..Len(DigitChars) : DigitChars[i] = c) - 1

IsSpace(c) == c \in {" ", "\t", "\n", "\r"}

RECURSIVE TrimStart(_)
TrimStart(s) ==
    IF Len(s) > 0 /\ IsSpace(s[1]) THEN TrimStart(Tail(s)) ELSE s

RECURSIVE TrimEnd(_)
TrimEnd(s) ==
    IF Len(s) > 0 /\ IsSpace(s[Len(s)])
    THEN TrimEnd(SubSeq(s, 1, Len(s) - 1)) ELSE s

\* s.trim()
Trim(s) == TrimEnd(TrimStart(s))

\* ------------------------------------------------------------------------
\* Nullable references: null is <<>>, a reference to x is <<x>>.

Null == <<>>
Some(x) == <<x>>
IsNull(o) == Len(o) = 0
Val(o) == o[1]

\* ------------------------------------------------------------------------
\* String literals used by the captures and the form inputs of the model.

EmptyStr == <<>>
sAll == <<"a","l","l">>
sGET == <<"G","E","T">>
sPOST == <<"P","O","S","T">>
sPUT == <<"P","U","T">>
s2xx == <<"2","x","x">>
s3xx == <<"3","x","x">>
s4xx == <<"4","x","x">>
s5xx == <<"5","x","x">>
sUrlA == <<"h",":","/","a">>
sUrlB == <<"h",":","/","B">>
sUrlC == <<"h",":","/","c">>
sUrlBad == <<"g","e","t">>
sGetLower == <<"g","e","t">>
s7 == <<"7">>
s10 == <<"1","0">>
sMime7 == <<"a","/","7">>
sMimeCss == <<"t","/","c","s","s">>
sMimeXml == <<"a","/","x","m","l">>
sJson == <<"j","s","o","n">>
sHtml == <<"h","t","m","l">>
sJavascript == <<"j","a","v","a","s","c","r","i","p","t">>
sCss == <<"c","s","s">>
sXml == <<"x","m","l">>
sMimeJsonHtml == <<"h","t","m","l","+","j","s","o","n">>
sMimeXhtml == <<"x","m","l","+","h","t","m","l">>
sMimeJs == <<"t","/","j","a","v","a","s","c","r","i","p","t">>
sMimeJsHtml == <<"j","a","v","a","s","c","r","i","p","t","+","h","t","m","l">>
sMimeCssJs == <<"c","s","s","+","j","a","v","a","s","c","r","i","p","t">>
sMimeXmlCss == <<"x","m","l","+","c","s","s">>
sMimePlain == <<"t","/","p","l","a","i","n">>
sMimeJsonUpper == <<"a","/","J","S","O","N">>
sTextArray == <<"[","1",","," ","2","0","]">>
sTextEmptyArray == <<"["," ","]">>
sTextObject == <<"{"," ","}">>
sTextNested == <<" ","[","[","1","]",",","2","]","\n">>
sTextNumber == <<"7">>
sTextWord == <<"x">>
sTextOpen == <<"[","1">>
sTextLeadingZero == <<"0","1">>
sTextComma == <<"[","1",",","]">>
sHttp1 == <<"H","1">>
sHttp2 == <<"H","2">>
sMimeJson == <<"a","/","j","s","o","n">>
sMimeHtml == <<"t","/","h","t","m","l",";","c">>
sMimeDefault == <<"a","p","p","l","i","c","a","t","i","o","n","/","j","s","o","n">>
sBody == <<"{","}">>
sBody2 == <<"x">>

\* ------------------------------------------------------------------------
\* Captured requests, responses and entries (interfaces HarRequest,
\* HarResponse, HarContent, HarEntry).

HeaderA == [name |-> <<"A">>, value |-> <<"b">>]
HeaderP == [name |-> <<":","p">>, value |-> <<"x",":","y">>]

ParamF == [name |-> <<"f">>, value |-> Null,
           fileName |-> Some(<<"n">>), contentType |-> Some(<<"t">>)]

PostDataB == [mimeType |-> sMimeJson, text |-> Some(sBody),
              params |-> Some(<<ParamF>>)]

MkRequest(method, url, headers, postData) ==
    [method |-> method, url |-> url, httpVersion |-> sHttp1,
     cookies |-> <<>>, headers |-> headers, queryString |-> <<>>,
     postData |-> postData, headersSize |-> Num(3), bodySize |-> Num(0)]

ReqA == MkRequest(sGET, sUrlA, <<HeaderA>>, Null)
ReqB == MkRequest(sPOST, sUrlB, <<HeaderP, HeaderA>>, Some(PostDataB))
ReqC == MkRequest(sGetLower, sUrlC, <<>>, Null)
ReqD == MkRequest(sPUT, sUrlBad, <<HeaderA>>, Null)

CookieS == [name |-> <<"s">>, value |-> <<"1">>]

sStarted == <<"2","0","2","4">>
sOK == <<"O","K">>
sIp == <<"1",".","2">>

\* An entry with the fields of interface HarEntry the handlers read; the
\* optional serverIPAddress is absent (Null) unless an entry sets it.
MkEntry(time, request, status, bodySize, mimeType, text) ==
    [startedDateTime |-> sStarted, time |-> time, request |-> request,
     response |-> [status |-> status,
                   statusText |-> IF status = 200 THEN sOK ELSE EmptyStr,
                   httpVersion |-> sHttp1,
                   cookies |-> <<CookieS>>,
                   headers |-> IF status = 404 THEN <<>> ELSE <<HeaderA>>,
                   bodySize |-> bodySize,
                   content |-> [mimeType |-> mimeType, text |-> text]],
     cache |-> [afterRequest |-> Null],
     timings |-> [send |-> Num(1), wait |-> time, receive |-> Num(0)],
     serverIPAddress |-> IF status = 200 THEN Some(sIp) ELSE Null]

EntryA == MkEntry(Num(5), ReqA, 200, Num(10), Some(sMimeJson), Some(sBody))
EntryB == MkEntry(Num(5), ReqB, 404, Num(4), Some(sMimeHtml), Some(sBody2))
EntryC == MkEntry(Num(9), ReqC, 300, Num(0), Some(sMimeJson), Null)
EntryD == MkEntry(Undefined, ReqD, 199, Num(2), Some(sMimeHtml), Null)

\* The entries the bounded entry lists are built from.
EntryPool == {EntryA, EntryB, EntryC, EntryD}

\* All sequences over S of length at most n.
SeqUpTo(S, n) == UNION {[1..m -> S] : m \in 0..n}

\* ------------------------------------------------------------------------
\* The entry filter of the request list.

\* FilterPass without the "all" sentinel of the method filter.
FilterPassNoMethodSentinel(entry, term, method, status) ==
    LET statusCode == entry.response.status
    IN  /\ ~( /\ Truthy(term)
              /\ ~Includes(ToLowerCase(entry.request.url), ToLowerCase(term))
              /\ ~Includes(ToLowerCase(entry.request.method), ToLowerCase(term)) )
        /\ ~( entry.request.method # method )
        /\ \/ status = sAll
           \/ /\ ~( status = s2xx /\ (statusCode < 200 \/ statusCode >= 300) )
              /\ ~( status = s3xx /\ (statusCode < 300 \/ statusCode >= 400) )
              /\ ~( status = s4xx /\ (statusCode < 400 \/ statusCode >= 500) )
              /\ ~( status = s5xx /\ (statusCode < 500 \/ statusCode >= 600) )

\* FilterPass with the search term compared as typed, not lower-cased.
FilterPassTermAsTyped(entry, term, method, status) ==
    LET statusCode == entry.response.status
    IN  /\ ~( /\ Truthy(term)
              /\ ~Includes(ToLowerCase(entry.request.url), term)
              /\ ~Includes(ToLowerCase(entry.request.method), term) )
        /\ ~( method # sAll /\ entry.request.method # method )
        /\ \/ status = sAll
           \/ /\ ~( status = s2xx /\ (statusCode < 200 \/ statusCode >= 300) )
              /\ ~( status = s3xx /\ (statusCode < 300 \/ statusCode >= 400) )
              /\ ~( status = s4xx /\ (statusCode < 400 \/ statusCode >= 500) )
              /\ ~( status = s5xx /\ (statusCode < 500 \/ statusCode >= 600) )

\* FilterPass with the upper bound of every status class included in it.
FilterPassUpperBoundIncluded(entry, term, method, status) ==
    LET statusCode == entry.response.status
    IN  /\ ~( /\ Truthy(term)
              /\ ~Includes(ToLowerCase(entry.request.url), ToLowerCase(term))
              /\ ~Includes(ToLowerCase(entry.request.method), ToLowerCase(term)) )
        /\ ~( method # sAll /\ entry.request.method # method )
        /\ \/ status = sAll
           \/ /\ ~( status = s2xx /\ (statusCode < 200 \/ statusCode > 300) )
              /\ ~( status = s3xx /\ (statusCode < 300 \/ statusCode > 400) )
              /\ ~( status = s4xx /\ (statusCode < 400 \/ statusCode > 500) )
              /\ ~( status = s5xx /\ (statusCode < 500 \/ statusCode > 600) )

\* FilterPass with the method compared without regard to letter case.
FilterPassMethodIgnoresCase(entry, term, method, status) ==
    LET statusCode == entry.response.status
    IN  /\ ~( /\ Truthy(term)
              /\ ~Includes(ToLowerCase(entry.request.url), ToLowerCase(term))
              /\ ~Includes(ToLowerCase(entry.request.method), ToLowerCase(term)) )
        /\ ~( method # sAll
              /\ ToLowerCase(entry.request.method) # ToLowerCase(method) )
        /\ \/ status = sAll
           \/ /\ ~( status = s2xx /\ (statusCode < 200 \/ statusCode >= 300) )
              /\ ~( status = s3xx /\ (statusCode < 300 \/ statusCode >= 400) )
              /\ ~( status = s4xx /\ (statusCode < 400 \/ statusCode >= 500) )
              /\ ~( status = s5xx /\ (statusCode < 500 \/ statusCode >= 600) )

\* The predicate passed to harFile.log.entries.filter.
FilterPass(entry, term, method, status) ==
    LET statusCode == entry.response.status
    IN  /\ ~( /\ Truthy(term)
              /\ ~Includes(ToLowerCase(entry.request.url), ToLowerCase(term))
              /\ ~Includes(ToLowerCase(entry.request.method), ToLowerCase(term)) )
        /\ ~( method # sAll /\ entry.request.method # method )
        /\ \/ status = sAll
           \/ /\ ~( status = s2xx /\ (statusCode < 200 \/ statusCode >= 300) )
              /\ ~( status = s3xx /\ (statusCode < 300 \/ statusCode >= 400) )
              /\ ~( status = s4xx /\ (statusCode < 400 \/ statusCode >= 500) )
              /\ ~( status = s5xx /\ (statusCode < 500 \/ statusCode >= 600) )

\* entries.filter(..): the positions, in capture order, of the entries kept.
FilterEntries(entries, term, method, status) ==
    SelectSeq([i \in 1..Len(entries) |-> i],
              LAMBDA i : FilterPass(entries[i], term, method, status))

\* ------------------------------------------------------------------------
\* The capture summary (the "HAR File Summary" card).

RECURSIVE SumTimes(_)
\* entries.reduce((sum, entry) => sum + entry.time, 0)
SumTimes(entries) ==
    IF Len(entries) = 0 THEN Num(0)
    ELSE Add(SumTimes(SubSeq(entries, 1, Len(entries) - 1)),
             entries[Len(entries)].time)

RECURSIVE SumBodySizes(_)
\* entries.reduce((sum, entry) => sum + entry.response.bodySize, 0)
SumBodySizes(entries) ==
    IF Len(entries) = 0 THEN Num(0)
    ELSE Add(SumBodySizes(SubSeq(entries, 1, Len(entries) - 1)),
             entries[Len(entries)].response.bodySize)

RECURSIVE MaxTimeReduce(_)
\* entries.reduce((max, entry) => Math.max(max, entry.time), 0)
MaxTimeReduce(entries) ==
    IF Len(entries) = 0 THEN Num(0)
    ELSE MathMax(MaxTimeReduce(SubSeq(entries, 1, Len(entries) - 1)),
                 entries[Len(entries)].time)

\* maxTime, the scale of the waterfall bars: the reduce, or 0 when that is
\* falsy.
MaxTime(entries) == OrZero(MaxTimeReduce(entries))

\* The average response time: the sum of the times over the entry count.
AverageTime(entries) == DivBy(SumTimes(entries), Len(entries))

\* SlowestStep with >= for >: a tie keeps the earlier entry.
SlowestStepKeepsTies(entries, prev, current) ==
    IF Ge(entries[prev].time, entries[current].time) THEN prev ELSE current

\* The callback of the slowest reduce, on positions: prev is kept only when
\* its time is strictly greater than the current entry's.
SlowestStep(entries, prev, current) ==
    IF Gt(entries[prev].time, entries[current].time) THEN prev ELSE current

RECURSIVE SlowestUpTo(_, _)
\* The accumulator of the slowest reduce after the first k entries (k >= 1):
\* with no initial value the reduce starts from the first entry.
SlowestUpTo(entries, k) ==
    IF k = 1 THEN 1
    ELSE SlowestStep(entries, SlowestUpTo(entries, k - 1), k)

\* The reduce without an initial value throws a TypeError on an empty array.
SlowestReduceThrows(entries) == Len(entries) = 0

\* Position of the entry reported as slowest, 0 when there is none.
Slowest(entries) ==
    IF SlowestReduceThrows(entries) THEN 0
    ELSE SlowestUpTo(entries, Len(entries))

\* The "Slowest Request" cell throws when the reduce throws, or when the
\* slowest entry has no time (slowest.time.toFixed, in the try block and
\* again in its catch block).
SlowestThrows(entries) ==
    \/ SlowestReduceThrows(entries)
    \/ ToFixedThrows(entries[Slowest(entries)].time)

RECURSIVE Tally(_)
\* keys.reduce((acc, k) => { acc[k] = (acc[k] || 0) + 1; return acc }, {}):
\* the properties of acc, in the order in which they were created, with
\* their counts.  (No key of the model is the name of a property that {}
\* inherits, such as "constructor".)
Tally(keys) ==
    IF Len(keys) = 0 THEN <<>>
    ELSE LET prev == Tally(SubSeq(keys, 1, Len(keys) - 1))
             k == keys[Len(keys)]
         IN  IF \E i \in 1..Len(prev) : prev[i].key = k
             THEN [i \in 1..Len(prev) |->
                     IF prev[i].key = k
                     THEN [key |-> k, count |-> prev[i].count + 1]
                     ELSE prev[i]]
             ELSE Append(prev, [key |-> k, count |-> 1])

\* A property key is an array index when it is the canonical decimal form of
\* an integer: digits only, with no leading zero.  (The keys of the model
\* are short, so all such integers are below 2^32 - 1.)
IsArrayIndex(key) ==
    /\ Len(key) > 0
    /\ \A i \in 1..Len(key) : IsDigit(key[i])
    /\ (Len(key) = 1 \/ key[1] # "0")

RECURSIVE ArrayIndexValue(_)
ArrayIndexValue(key) ==
    IF Len(key) = 0 THEN 0
    ELSE 10 * ArrayIndexValue(SubSeq(key, 1, Len(key) - 1))
         + DigitValue(key[Len(key)])

RECURSIVE InsertByIndex(_, _)
\* Insertion into a list of properties ordered by ascending array index.
InsertByIndex(sorted, r) ==
    IF Len(sorted) = 0 THEN <<r>>
    ELSE IF ArrayIndexValue(sorted[Len(sorted)].key) < ArrayIndexValue(r.key)
    THEN Append(sorted, r)
    ELSE Append(InsertByIndex(SubSeq(sorted, 1, Len(sorted) - 1), r),
                sorted[Len(sorted)])

RECURSIVE SortByIndex(_)
SortByIndex(props) ==
    IF Len(props) = 0 THEN <<>>
    ELSE InsertByIndex(SortByIndex(SubSeq(props, 1, Len(props) - 1)),
                       props[Len(props)])

\* Object.entries(acc): the properties whose keys are array indices come
\* first, in ascending numeric order, and the other properties follow in
\* the order in which they were created.
ObjectEntries(props) ==
    SortByIndex(SelectSeq(props, LAMBDA r : IsArrayIndex(r.key)))
    \o SelectSeq(props, LAMBDA r : ~IsArrayIndex(r.key))

\* ((count / total) * 100).toFixed(1), in tenths of a percent.
PercentTenths(count, total) == (2000 * count + total) \div (2 * total)

\* The method distribution: the methods in the order of Object.entries, with
\* their counts and percentages.
MethodCounts(entries) ==
    LET counts == ObjectEntries(
            Tally([i \in 1..Len(entries) |-> entries[i].request.method]))
    IN  [i \in 1..Len(counts) |->
            [key |-> counts[i].key, count |-> counts[i].count,
             percent |-> PercentTenths(counts[i].count, Len(entries))]]

\* StatusGroup with the lower bound of every class excluded from it.
StatusGroupLowerBoundExcluded(status) ==
    IF status > 200 /\ status < 300 THEN "2xx Success"
    ELSE IF status > 300 /\ status < 400 THEN "3xx Redirection"
    ELSE IF status > 400 /\ status < 500 THEN "4xx Client Error"
    ELSE IF status > 500 /\ status < 600 THEN "5xx Server Error"
    ELSE "Other"

\* The status group an entry is counted in.
StatusGroup(status) ==
    IF status >= 200 /\ status < 300 THEN "2xx Success"
    ELSE IF status >= 300 /\ status < 400 THEN "3xx Redirection"
    ELSE IF status >= 400 /\ status < 500 THEN "4xx Client Error"
    ELSE IF status >= 500 /\ status < 600 THEN "5xx Server Error"
    ELSE "Other"

StatusGroupNames ==
    <<"2xx Success", "3xx Redirection", "4xx Client Error",
      "5xx Server Error", "Other">>

\* The status distribution: the five groups in their declared order, those
\* with a count of 0 filtered out.
StatusGroups(entries) ==
    LET all == [g \in 1..Len(StatusGroupNames) |->
                  [key |-> StatusGroupNames[g],
                   count |-> Cardinality({i \in 1..Len(entries) :
                       StatusGroup(entries[i].response.status)
                           = StatusGroupNames[g]})]]
    IN  SelectSeq(all, LAMBDA r : r.count > 0)

\* The key an entry is counted under in the content-type distribution.
ContentTypeKey(mimeTypeField) ==
    LET mimeType == Trim(Split(mimeTypeField, ";")[1])
    IN  IF Includes(mimeType, <<"/">>) THEN Split(mimeType, "/")[2]
        ELSE mimeType

\* entry.response.content.mimeType.split throws when mimeType is undefined.
ContentTypesThrows(entries) ==
    \E i \in 1..Len(entries) : IsNull(entries[i].response.content.mimeType)

RECURSIVE InsertByCount(_, _)
\* Stable insertion into a list ordered by descending count.
InsertByCount(sorted, r) ==
    IF Len(sorted) = 0 THEN <<r>>
    ELSE IF sorted[Len(sorted)].count >= r.count THEN Append(sorted, r)
    ELSE Append(InsertByCount(SubSeq(sorted, 1, Len(sorted) - 1), r),
                sorted[Len(sorted)])

RECURSIVE SortByCountDesc(_)
\* list.sort((a, b) => b[1] - a[1]), a stable sort.
SortByCountDesc(list) ==
    IF Len(list) = 0 THEN <<>>
    ELSE InsertByCount(SortByCountDesc(SubSeq(list, 1, Len(list) - 1)),
                       list[Len(list)])

\* Number of content types shown: .slice(0, 5).
TopContentTypes == 5

\* The content-type distribution.
ContentTypes(entries) ==
    IF ContentTypesThrows(entries) THEN <<>>
    ELSE LET sorted == SortByCountDesc(ObjectEntries(Tally(
                 [i \in 1..Len(entries) |->
                    ContentTypeKey(Val(entries[i].response.content.mimeType))])))
         IN  SubSeq(sorted, 1,
                    IF Len(sorted) < TopContentTypes THEN Len(sorted)
                    ELSE TopContentTypes)

\* Rendering the summary card throws when one of its cells throws.
SummaryThrows(entries) ==
    SlowestThrows(entries) \/ ContentTypesThrows(entries)

\* Everything the summary card computes for an entry list.
Summary(entries) ==
    [totalCount |-> Len(entries),
     totalBodyBytes |-> SumBodySizes(entries),
     averageTime |-> AverageTime(entries),
     slowest |-> Slowest(entries),
     methodCounts |-> MethodCounts(entries),
     statusGroups |-> StatusGroups(entries),
     contentTypes |-> ContentTypes(entries),
     throws |-> SummaryThrows(entries)]

\* ------------------------------------------------------------------------
\* formatContent, with JSON.parse and JSON.stringify on the texts of the
\* model.  The texts are written with digits, brackets, braces, commas and
\* white space (and letters that begin no JSON literal): on such texts the
\* JSON values are non-negative integers, arrays and the empty object.

JsonNumber(digits) == [t |-> "num", digits |-> digits, items |-> <<>>]
JsonArray(items) == [t |-> "arr", digits |-> <<>>, items |-> items]
JsonObject == [t |-> "obj", digits |-> <<>>, items |-> <<>>]

\* The outcome of parsing a prefix of a text: a value and the rest of the
\* text, or a SyntaxError.
JsonOk(val, rest) == [ok |-> TRUE, val |-> val, rest |-> rest]
JsonSyntaxError == [ok |-> FALSE, val |-> JsonObject, rest |-> <<>>]

RECURSIVE JsonSkipSpace(_)
JsonSkipSpace(s) ==
    IF Len(s) > 0 /\ s[1] \in {" ", "\t", "\n", "\r"}
    THEN JsonSkipSpace(Tail(s)) ELSE s

RECURSIVE JsonDigits(_)
\* The longest prefix of s made of digits.
JsonDigits(s) ==
    IF Len(s) > 0 /\ IsDigit(s[1]) THEN <<s[1]>> \o JsonDigits(Tail(s))
    ELSE <<>>

\* A number: "0", or digits that do not start with 0.
JsonParseNumber(s) ==
    IF s[1] = "0" THEN JsonOk(JsonNumber(<<"0">>), Tail(s))
    ELSE JsonOk(JsonNumber(JsonDigits(s)),
                SubSeq(s, Len(JsonDigits(s)) + 1, Len(s)))

RECURSIVE JsonParseValue(_), JsonParseItems(_, _)
\* A value at the start of s, after white space.
JsonParseValue(s0) ==
    LET s == JsonSkipSpace(s0)
    IN  IF Len(s) = 0 THEN JsonSyntaxError
        ELSE IF IsDigit(s[1]) THEN JsonParseNumber(s)
        ELSE IF s[1] = "{"
        THEN LET r == JsonSkipSpace(Tail(s))
             IN  IF Len(r) > 0 /\ r[1] = "}" THEN JsonOk(JsonObject, Tail(r))
                 ELSE JsonSyntaxError
        ELSE IF s[1] = "["
        THEN LET r == JsonSkipSpace(Tail(s))
             IN  IF Len(r) > 0 /\ r[1] = "]"
                 THEN JsonOk(JsonArray(<<>>), Tail(r))
                 ELSE JsonParseItems(r, <<>>)
        ELSE JsonSyntaxError

\* The items of an array from the start of an item on, items being those
\* already parsed.
JsonParseItems(s, items) ==
    LET e == JsonParseValue(s)
    IN  IF ~e.ok THEN JsonSyntaxError
        ELSE LET r == JsonSkipSpace(e.rest)
             IN  IF Len(r) = 0 THEN JsonSyntaxError
                 ELSE IF r[1] = ","
                 THEN JsonParseItems(Tail(r), Append(items, e.val))
                 ELSE IF r[1] = "]"
                 THEN JsonOk(JsonArray(Append(items, e.val)), Tail(r))
                 ELSE JsonSyntaxError

\* JSON.parse(text): one value with nothing but white space after it.
JsonTextParse(text) ==
    LET p == JsonParseValue(text)
    IN  IF p.ok /\ Len(JsonSkipSpace(p.rest)) = 0 THEN p ELSE JsonSyntaxError

Spaces(n) == [i \in 1..n |-> " "]

RECURSIVE JsonStringify(_, _)
\* JSON.stringify(value, null, 2) of a value nested at the given indent.
JsonStringify(value, indent) ==
    IF value.t = "num" THEN value.digits
    ELSE IF value.t = "obj" THEN <<"{", "}">>
    ELSE IF Len(value.items) = 0 THEN <<"[", "]">>
    ELSE <<"[", "\n">>
         \o JoinStr([i \in 1..Len(value.items) |->
                       Spaces(indent + 2)
                       \o JsonStringify(value.items[i], indent + 2)],
                    <<",", "\n">>)
         \o <<"\n">> \o Spaces(indent) \o <<"]">>

\* !content.text: the text is absent or empty.
NoText(content) == IsNull(content.text) \/ ~Truthy(Val(content.text))

\* content.mimeType.includes(..) throws a TypeError when mimeType is
\* undefined; it is reached when there is text.
FormatContentThrows(content) ==
    ~NoText(content) /\ IsNull(content.mimeType)

\* FormatContent going on to the later MIME substrings when the text of a
\* json MIME type does not parse.
FormatContentFallsThrough(content) ==
    IF NoText(content)
    THEN [noContent |-> TRUE, language |-> "text", text |-> <<>>]
    ELSE LET text == Val(content.text)
             mimeType == Val(content.mimeType)
             shown(language, t) ==
                 [noContent |-> FALSE, language |-> language, text |-> t]
         IN  IF Includes(mimeType, sJson) /\ JsonTextParse(text).ok
             THEN shown("json", JsonStringify(JsonTextParse(text).val, 0))
             ELSE IF Includes(mimeType, sHtml) THEN shown("html", text)
             ELSE IF Includes(mimeType, sJavascript)
             THEN shown("javascript", text)
             ELSE IF Includes(mimeType, sCss) THEN shown("css", text)
             ELSE IF Includes(mimeType, sXml) THEN shown("xml", text)
             ELSE shown("text", text)

\* FormatContent testing for xml before css.
FormatContentXmlBeforeCss(content) ==
    IF NoText(content)
    THEN [noContent |-> TRUE, language |-> "text", text |-> <<>>]
    ELSE LET text == Val(content.text)
             mimeType == Val(content.mimeType)
             shown(language, t) ==
                 [noContent |-> FALSE, language |-> language, text |-> t]
         IN  IF Includes(mimeType, sJson)
             THEN IF JsonTextParse(text).ok
                  THEN shown("json", JsonStringify(JsonTextParse(text).val, 0))
                  ELSE shown("text", text)
             ELSE IF Includes(mimeType, sHtml) THEN shown("html", text)
             ELSE IF Includes(mimeType, sJavascript)
             THEN shown("javascript", text)
             ELSE IF Includes(mimeType, sXml) THEN shown("xml", text)
             ELSE IF Includes(mimeType, sCss) THEN shown("css", text)
             ELSE shown("text", text)

\* formatContent(content), for content it does not throw on: the
\* "No content" element, or the language and the text handed to the syntax
\* highlighter.
FormatContent(content) ==
    IF NoText(content)
    THEN [noContent |-> TRUE, language |-> "text", text |-> <<>>]
    ELSE LET text == Val(content.text)
             mimeType == Val(content.mimeType)
             shown(language, t) ==
                 [noContent |-> FALSE, language |-> language, text |-> t]
         IN  IF Includes(mimeType, sJson)
             THEN IF JsonTextParse(text).ok
                  THEN shown("json", JsonStringify(JsonTextParse(text).val, 0))
                  ELSE shown("text", text)
             ELSE IF Includes(mimeType, sHtml) THEN shown("html", text)
             ELSE IF Includes(mimeType, sJavascript)
             THEN shown("javascript", text)
             ELSE IF Includes(mimeType, sCss) THEN shown("css", text)
             ELSE IF Includes(mimeType, sXml) THEN shown("xml", text)
             ELSE shown("text", text)

\* ------------------------------------------------------------------------
\* Parsed documents.  JSON.parse(content) is cast to HarFile unchecked, so
\* harFile may hold any JSON value: a document with or without log, and a
\* log with or without entries.

HarDoc(es) == [log |-> Some([entries |-> Some(es)])]
DocNoLog == [log |-> Null]
DocNoEntries == [log |-> Some([entries |-> Null])]

HasEntries(doc) == ~IsNull(doc.log) /\ ~IsNull(Val(doc.log).entries)
EntriesOf(doc) == Val(Val(doc.log).entries)

\* The capture a session of the model loads.
CaptureAB == <<EntryA, EntryB>>
SessionCaptures == {CaptureAB}

\* What readTextFile can deliver: text that is not JSON, the JSON text
\* "null", and JSON documents with and without a log.entries array.
FileContents ==
    {[json |-> FALSE, value |-> Null], [json |-> TRUE, value |-> Null]}
    \cup {[json |-> TRUE, value |-> Some(d)] :
            d \in {DocNoLog, DocNoEntries} \cup {HarDoc(c) : c \in SessionCaptures}}

\* JSON.parse(content) throws a SyntaxError on text that is not JSON.
JsonParseThrows(content) == ~content.json
JsonParse(content) == content.value

\* ------------------------------------------------------------------------
\* The state of the App component and of its pending asynchronous calls.

VARIABLES
    harFile,        \* useState<HarFile | null>
    selectedEntry,  \* useState<HarEntry | null>, as a position in the capture
    editedRequest,  \* useState<HarRequest | null>
    replayResponse, \* useState<any>
    searchTerm,     \* useState<string>
    filterMethod,   \* useState<string>
    filterStatus,   \* useState<string>
    dialogOpen,     \* whether the "Edit and Replay Request" dialog is open
    loadPc,         \* where the pending openHarFile call stands
    inFlight,       \* the replayRequest calls awaiting the backend
    nextId,         \* the number the next replayRequest call gets
    console,        \* the last console.error line written by a catch block
    view,           \* what the last render computed
    exported        \* the document the step just taken handed to the
                    \* browser as a download, Null when it started none

vars == <<harFile, selectedEntry, editedRequest, replayResponse, searchTerm,
          filterMethod, filterStatus, dialogOpen, loadPc, inFlight, nextId,
          console, view, exported>>

\* The App function body throws while rendering (harFile?.log.entries.reduce
\* and harFile.log.entries.length) when harFile is set to a document without
\* log.entries; React then unmounts the component tree.
RenderThrows(hf) == ~IsNull(hf) /\ ~HasEntries(Val(hf))

\* A capture is shown: harFile is set and has an entry list.
Loaded(hf) == ~IsNull(hf) /\ HasEntries(Val(hf))

\* What a render computes from the state: the positions of the entries in
\* the request list, the scale of the waterfall, the summary card when no
\* entry is selected and the formatted response content of the entry when
\* one is; and whether computing the summary or the content throws.
RenderView(hf, sel, term, method, status) ==
    IF ~Loaded(hf)
    THEN [throws |-> RenderThrows(hf), list |-> <<>>, maxTime |-> Num(0),
          summary |-> Null, content |-> Null]
    ELSE LET entries == EntriesOf(Val(hf))
         IN  [throws |-> IF sel = 0 THEN SummaryThrows(entries)
                         ELSE FormatContentThrows(entries[sel].response.content),
              list |-> FilterEntries(entries, term, method, status),
              maxTime |-> MaxTime(entries),
              summary |-> IF sel = 0 THEN Some(Summary(entries)) ELSE Null,
              content |->
                  IF sel = 0 \/ FormatContentThrows(entries[sel].response.content)
                  THEN Null
                  ELSE Some(FormatContent(entries[sel].response.content))]

\* Every state change is followed by a render of the new state.
Rerender ==
    view' = RenderView(harFile', selectedEntry', searchTerm', filterMethod',
                       filterStatus')

\* The component is mounted and its controls outside the dialog can be used:
\* no render threw and the modal dialog is closed.
PageUsable == ~RenderThrows(harFile) /\ ~view.throws /\ ~dialogOpen

Init ==
    /\ harFile = Null
    /\ selectedEntry = 0
    /\ editedRequest = Null
    /\ replayResponse = Null
    /\ searchTerm = EmptyStr
    /\ filterMethod = sAll
    /\ filterStatus = sAll
    /\ dialogOpen = FALSE
    /\ loadPc = "idle"
    /\ inFlight = {}
    /\ nextId = 1
    /\ console = "none"
    /\ view = RenderView(Null, 0, EmptyStr, sAll, sAll)
    /\ exported = Null

\* ------------------------------------------------------------------------
\* openHarFile: the file dialog, the file read, JSON.parse and the state
\* reset, with the awaits as separate steps.

\* catch (error) { console.error(..) }: the line replaces the last one kept.
LogError(line) == console' = line

\* A handler other than exportRequestData starts no download.
NoDownload == exported' = Null

\* The "Open HAR File" button is clicked: open(..) and then
\* readTextFile(selected) are awaited.  openHarFile reads and writes no
\* state between the two awaits, so they are one pending step.
OpenHarFileStart ==
    /\ PageUsable
    /\ loadPc = "idle"
    /\ loadPc' = "pending"
    /\ UNCHANGED <<harFile, selectedEntry, editedRequest, replayResponse,
                   searchTerm, filterMethod, filterStatus, dialogOpen,
                   inFlight, nextId, console, view>>
    /\ NoDownload

\* The file dialog is cancelled: selected is null and nothing is done.
OpenHarFileCancel ==
    /\ loadPc = "pending"
    /\ loadPc' = "idle"
    /\ UNCHANGED <<harFile, selectedEntry, editedRequest, replayResponse,
                   searchTerm, filterMethod, filterStatus, dialogOpen,
                   inFlight, nextId, console, view>>
    /\ NoDownload

\* open or readTextFile rejects: the catch block logs the error.
OpenHarFileReadError ==
    /\ loadPc = "pending"
    /\ loadPc' = "idle"
    /\ LogError("Error opening HAR file:")
    /\ UNCHANGED <<harFile, selectedEntry, editedRequest, replayResponse,
                   searchTerm, filterMethod, filterStatus, dialogOpen,
                   inFlight, nextId, view>>
    /\ NoDownload

\* The state after setHarFile(harData) and the three resets.
InstallHarFile(harData) ==
    /\ harFile' = harData
    /\ selectedEntry' = 0
    /\ editedRequest' = Null
    /\ replayResponse' = Null

\* readTextFile resolves with content: JSON.parse either throws, and the
\* catch block logs, or its value is installed as harFile.  The dialog is
\* unmounted with the entry view when the selection is reset.
OpenHarFileLoad(content) ==
    /\ loadPc = "pending"
    /\ loadPc' = "idle"
    /\ UNCHANGED <<searchTerm, filterMethod, filterStatus, inFlight, nextId>>
    /\ NoDownload
    /\ IF JsonParseThrows(content)
       THEN /\ LogError("Error opening HAR file:")
            /\ UNCHANGED <<harFile, selectedEntry, editedRequest,
                           replayResponse, dialogOpen, view>>
       ELSE /\ InstallHarFile(JsonParse(content))
            /\ dialogOpen' = FALSE
            /\ UNCHANGED console
            /\ Rerender

\* ------------------------------------------------------------------------
\* The request list: filters and selection.

\* The values the filter controls are set to: in a render of a loaded
\* capture, and in a session.
SearchTerms == {EmptyStr, <<"g","e","t">>, <<"B">>}
FilterMethods == {sAll, sGET, sPOST}
FilterStatuses == {sAll, s2xx, s3xx, s4xx, s5xx}
SessionSearchTerms == {EmptyStr, <<"g","e","t">>}
SessionFilterMethods == {sAll}
SessionFilterStatuses == {sAll}

SetSearchTerm(t) ==
    /\ PageUsable /\ Loaded(harFile)
    /\ searchTerm' = t
    /\ UNCHANGED <<harFile, selectedEntry, editedRequest, replayResponse,
                   filterMethod, filterStatus, dialogOpen, loadPc, inFlight,
                   nextId, console>>
    /\ NoDownload
    /\ Rerender

SetFilterMethod(m) ==
    /\ PageUsable /\ Loaded(harFile)
    /\ filterMethod' = m
    /\ UNCHANGED <<harFile, selectedEntry, editedRequest, replayResponse,
                   searchTerm, filterStatus, dialogOpen, loadPc, inFlight,
                   nextId, console>>
    /\ NoDownload
    /\ Rerender

SetFilterStatus(st) ==
    /\ PageUsable /\ Loaded(harFile)
    /\ filterStatus' = st
    /\ UNCHANGED <<harFile, selectedEntry, editedRequest, replayResponse,
                   searchTerm, filterMethod, dialogOpen, loadPc, inFlight,
                   nextId, console>>
    /\ NoDownload
    /\ Rerender

\* onClick of an entry of the request list: only listed entries can be
\* clicked.
\* SelectEntry leaving the replay result of the entry selected before.
SelectEntryKeepsReplay(i) ==
    /\ PageUsable /\ Loaded(harFile)
    /\ \E j \in 1..Len(view.list) : view.list[j] = i
    /\ selectedEntry' = i
    /\ editedRequest' = Null
    /\ UNCHANGED <<harFile, replayResponse, searchTerm, filterMethod,
                   filterStatus, dialogOpen, loadPc, inFlight, nextId,
                   console>>
    /\ NoDownload
    /\ Rerender

SelectEntry(i) ==
    /\ PageUsable /\ Loaded(harFile)
    /\ \E j \in 1..Len(view.list) : view.list[j] = i
    /\ selectedEntry' = i
    /\ editedRequest' = Null
    /\ replayResponse' = Null
    /\ UNCHANGED <<harFile, searchTerm, filterMethod, filterStatus,
                   dialogOpen, loadPc, inFlight, nextId, console>>
    /\ NoDownload
    /\ Rerender

\* ------------------------------------------------------------------------
\* The "Edit and Replay Request" dialog and its form.

\* The dialog is part of the entry view and is mounted while an entry is
\* selected.
DialogOpen ==
    /\ PageUsable /\ Loaded(harFile)
    /\ selectedEntry # 0
    /\ dialogOpen' = TRUE
    /\ UNCHANGED <<harFile, selectedEntry, editedRequest, replayResponse,
                   searchTerm, filterMethod, filterStatus, loadPc, inFlight,
                   nextId, console, view>>
    /\ NoDownload

\* The Dialog element is given no close handler: closing changes nothing
\* but the dialog's own open state.
DialogClose ==
    /\ dialogOpen
    /\ dialogOpen' = FALSE
    /\ UNCHANGED <<harFile, selectedEntry, editedRequest, replayResponse,
                   searchTerm, filterMethod, filterStatus, loadPc, inFlight,
                   nextId, console, view>>
    /\ NoDownload

\* The request of the selected entry.
SelectedRequest == EntriesOf(Val(harFile))[selectedEntry].request

\* CurrentRequest starting every edit from the captured request.
CurrentRequestIgnoresOverlay == SelectedRequest

\* editedRequest || selectedEntry.request
CurrentRequest ==
    IF IsNull(editedRequest) THEN SelectedRequest ELSE Val(editedRequest)

\* The form can be typed into: the dialog is open on a selected entry.
FormUsable ==
    dialogOpen /\ ~RenderThrows(harFile) /\ Loaded(harFile) /\ selectedEntry # 0

\* SetEditedRequest writing the edit into selectedEntry.request as well.
SetEditedRequestInPlace(r) ==
    /\ editedRequest' = Some(r)
    /\ harFile' = Some(HarDoc([EntriesOf(Val(harFile)) EXCEPT
                                ![selectedEntry].request = r]))
    /\ UNCHANGED <<selectedEntry, replayResponse, searchTerm, filterMethod,
                   filterStatus, dialogOpen, loadPc, inFlight, nextId,
                   console>>
    /\ NoDownload
    /\ Rerender

\* setEditedRequest(r): the only thing an edit changes.
SetEditedRequest(r) ==
    /\ editedRequest' = Some(r)
    /\ UNCHANGED <<harFile, selectedEntry, replayResponse, searchTerm,
                   filterMethod, filterStatus, dialogOpen, loadPc, inFlight,
                   nextId, console, view>>
    /\ NoDownload

EditMethod(v) ==
    /\ FormUsable
    /\ SetEditedRequest([CurrentRequest EXCEPT !.method = v])

EditUrl(v) ==
    /\ FormUsable
    /\ SetEditedRequest([CurrentRequest EXCEPT !.url = v])

EditHttpVersion(v) ==
    /\ FormUsable
    /\ SetEditedRequest([CurrentRequest EXCEPT !.httpVersion = v])

\* ParseHeaderLine taking the second part alone as the value.
ParseHeaderLineSecondPart(line) ==
    LET parts == Split(line, ":")
    IN  [name |-> parts[1],
         value |-> IF Len(parts) > 1 THEN Trim(parts[2]) ELSE <<>>]

\* One line of the headers text area: split on ':', the first part is the
\* name, the rest joined by ':' and trimmed is the value.
ParseHeaderLine(line) ==
    LET parts == Split(line, ":")
    IN  [name |-> parts[1], value |-> Trim(Join(Tail(parts), ":"))]

\* The headers text area's onChange: one header for every line.
ParseHeaders(text) ==
    LET headerLines == Split(text, "\n")
    IN  [i \in 1..Len(headerLines) |-> ParseHeaderLine(headerLines[i])]

\* formatHeaders: "name: value" lines joined by newlines.
FormatHeaders(headers) ==
    Join([i \in 1..Len(headers) |->
            headers[i].name \o <<":", " ">> \o headers[i].value], "\n")

EditHeaders(text) ==
    /\ FormUsable
    /\ SetEditedRequest([CurrentRequest EXCEPT !.headers = ParseHeaders(text)])

\* The post data an edit of the body starts from:
\* editedRequest?.postData || selectedEntry.request.postData
\*   || { mimeType: 'application/json' }
BasePostData ==
    IF ~IsNull(editedRequest) /\ ~IsNull(Val(editedRequest).postData)
    THEN Val(Val(editedRequest).postData)
    ELSE IF ~IsNull(SelectedRequest.postData)
    THEN Val(SelectedRequest.postData)
    ELSE [mimeType |-> sMimeDefault, text |-> Null, params |-> Null]

EditBody(text) ==
    /\ FormUsable
    /\ SetEditedRequest([CurrentRequest EXCEPT
           !.postData = Some([BasePostData EXCEPT !.text = Some(text)])])

\* The values the inputs of the form show:
\* editedRequest?.method || selectedEntry.request.method, and likewise for
\* the URL and the HTTP version;
\* editedRequest?.postData?.text || selectedEntry.request.postData?.text || ''
FormMethod ==
    IF ~IsNull(editedRequest) /\ Truthy(Val(editedRequest).method)
    THEN Val(editedRequest).method ELSE SelectedRequest.method

FormUrl ==
    IF ~IsNull(editedRequest) /\ Truthy(Val(editedRequest).url)
    THEN Val(editedRequest).url ELSE SelectedRequest.url

FormHttpVersion ==
    IF ~IsNull(editedRequest) /\ Truthy(Val(editedRequest).httpVersion)
    THEN Val(editedRequest).httpVersion ELSE SelectedRequest.httpVersion

\* postData?.text of a request: Null when there is no post data or no text.
PostDataText(request) ==
    IF IsNull(request.postData) THEN Null ELSE Val(request.postData).text

FormBody ==
    IF /\ ~IsNull(editedRequest)
       /\ ~IsNull(PostDataText(Val(editedRequest)))
       /\ Truthy(Val(PostDataText(Val(editedRequest))))
    THEN Val(PostDataText(Val(editedRequest)))
    ELSE IF /\ ~IsNull(PostDataText(SelectedRequest))
            /\ Truthy(Val(PostDataText(SelectedRequest)))
    THEN Val(PostDataText(SelectedRequest))
    ELSE EmptyStr

\* The text shown in the headers text area: formatHeaders of the edited
\* headers, or of the captured ones.
FormHeadersText == FormatHeaders(CurrentRequest.headers)

\* The headers text area is changed and changed back: its onChange runs on
\* the text it showed.
RetypeHeaders ==
    /\ FormUsable
    /\ EditHeaders(FormHeadersText)

\* The values the form inputs are set to in the model.
MethodInputs == {sPUT}
UrlInputs == {EmptyStr}
HttpVersionInputs == {sHttp2}
HeaderInputs == {<<"X",":"," ","1",":","2","\n","Y">>}
BodyInputs == {sBody2}

\* The texts typed into the headers text area where header parsing is
\* checked: lines with several colons, without a colon, with white space
\* around the name and the value, starting with a colon, ending with a
\* colon, an empty line between two lines, and the empty text.
HeaderTexts ==
    HeaderInputs \cup
    {<<" ","A"," ",":"," ","b"," ">>,
     <<"A",":"," ","b","\n","\n","C",":"," ","d">>,
     <<":","p",":"," ","x">>,
     <<"A",":">>,
     <<"A",":","b",":">>,
     EmptyStr}

\* ------------------------------------------------------------------------
\* replayRequest.

\* One multipart parameter of post_data: a copy with file_name and
\* content_type added and fileName and contentType deleted.
RustParam(param) ==
    [name |-> param.name, value |-> param.value,
     file_name |-> param.fileName, content_type |-> param.contentType]

\* post_data: a copy of postData with mime_type added, params mapped to
\* copies, and mimeType deleted.
RustPostData(postData) ==
    [text |-> postData.text,
     mime_type |-> postData.mimeType,
     params |-> IF IsNull(postData.params) THEN Null
                ELSE Some([i \in 1..Len(Val(postData.params)) |->
                             RustParam(Val(postData.params)[i])])]

\* rustRequest after the deletes: a copy of request with the snake_case
\* fields added and httpVersion, queryString, headersSize and bodySize
\* deleted.  postData is not deleted and still refers to the original.
RustRequest(request) ==
    [method |-> request.method, url |-> request.url,
     cookies |-> request.cookies, headers |-> request.headers,
     postData |-> request.postData,
     http_version |-> request.httpVersion,
     query_string |-> request.queryString,
     post_data |-> IF IsNull(request.postData) THEN Null
                   ELSE Some(RustPostData(Val(request.postData))),
     headers_size |-> request.headersSize,
     body_size |-> request.bodySize]

\* The call made by one replayRequest invocation: its number and the entry
\* whose request, as captured or as edited, it carries.  The backend's
\* answer is not modelled as a function of the request.
ReplayCall(id, entry, request) ==
    [id |-> id, entry |-> entry]

\* "Send Request": replayRequest(editedRequest || selectedEntry.request)
\* runs up to the await of invoke("replay_request", ..).  It writes nothing
\* but its local rustRequest.
ReplayRequestSend ==
    /\ FormUsable
    /\ nextId <= MaxCalls
    /\ inFlight' = inFlight \cup {ReplayCall(nextId, selectedEntry, CurrentRequest)}
    /\ nextId' = nextId + 1
    /\ UNCHANGED <<harFile, selectedEntry, editedRequest, replayResponse,
                   searchTerm, filterMethod, filterStatus, dialogOpen, loadPc,
                   console, view>>
    /\ NoDownload

\* JSON.parse(response) of a successful call: the reply to that call.
ReplayResult(call) == [id |-> call.id, entry |-> call.entry]

\* The backend answers call with a reply that parses: the rest of the try
\* block runs, setReplayResponse(JSON.parse(response)).  A state setter of
\* an unmounted component does nothing.
ReplayRequestResolve(call) ==
    /\ call \in inFlight
    /\ inFlight' = inFlight \ {call}
    /\ replayResponse' = IF RenderThrows(harFile) THEN replayResponse
                         ELSE Some(ReplayResult(call))
    /\ UNCHANGED <<harFile, selectedEntry, editedRequest, searchTerm,
                   filterMethod, filterStatus, dialogOpen, loadPc, nextId,
                   console, view>>
    /\ NoDownload

\* The ways a call fails: invoke rejects (invalid URL, network failure), or
\* its reply is not JSON and JSON.parse throws.
ReplayFailures == {"rejected", "unparsable"}

\* ReplayRequestFail issuing the call again from the catch block.
ReplayRequestFailRetries(call, failure) ==
    /\ call \in inFlight
    /\ inFlight' = (inFlight \ {call}) \cup
                      (IF call.id <= MaxCalls
                       THEN {[call EXCEPT !.id = call.id + MaxCalls]}
                       ELSE {})
    /\ LogError("Error replaying request:")
    /\ UNCHANGED <<harFile, selectedEntry, editedRequest, replayResponse,
                   searchTerm, filterMethod, filterStatus, dialogOpen, loadPc,
                   nextId, view>>
    /\ NoDownload

\* The call fails: the catch block logs the error and sets no state.
ReplayRequestFail(call, failure) ==
    /\ call \in inFlight
    /\ inFlight' = inFlight \ {call}
    /\ LogError("Error replaying request:")
    /\ UNCHANGED <<harFile, selectedEntry, editedRequest, replayResponse,
                   searchTerm, filterMethod, filterStatus, dialogOpen, loadPc,
                   nextId, view>>
    /\ NoDownload

\* ------------------------------------------------------------------------
\* exportRequestData.

\* ExportData also copying the cookies of the request and of the response.
ExportDataWithCookies(entry) ==
    [request |-> [method |-> entry.request.method,
                  url |-> entry.request.url,
                  httpVersion |-> entry.request.httpVersion,
                  cookies |-> entry.request.cookies,
                  headers |-> entry.request.headers,
                  queryString |-> entry.request.queryString,
                  postData |-> entry.request.postData],
     response |-> [status |-> entry.response.status,
                   statusText |-> entry.response.statusText,
                   httpVersion |-> entry.response.httpVersion,
                   cookies |-> entry.response.cookies,
                   headers |-> entry.response.headers,
                   content |-> entry.response.content],
     timing |-> entry.timings,
     serverIPAddress |-> entry.serverIPAddress,
     startedDateTime |-> entry.startedDateTime,
     time |-> entry.time]

\* The exported document.  A field whose value is undefined (Null here) is
\* left out of the text by JSON.stringify.
ExportData(entry) ==
    [request |-> [method |-> entry.request.method,
                  url |-> entry.request.url,
                  httpVersion |-> entry.request.httpVersion,
                  headers |-> entry.request.headers,
                  queryString |-> entry.request.queryString,
                  postData |-> entry.request.postData],
     response |-> [status |-> entry.response.status,
                   statusText |-> entry.response.statusText,
                   httpVersion |-> entry.response.httpVersion,
                   headers |-> entry.response.headers,
                   content |-> entry.response.content],
     timing |-> entry.timings,
     serverIPAddress |-> entry.serverIPAddress,
     startedDateTime |-> entry.startedDateTime,
     time |-> entry.time]

\* "Export": the document of the selected entry is handed to the browser as
\* a download and the link is removed again; no state of the component is
\* written.  The name of the downloaded file is not modelled.
ExportRequestData ==
    /\ PageUsable /\ Loaded(harFile)
    /\ selectedEntry # 0
    /\ exported' = Some(ExportData(EntriesOf(Val(harFile))[selectedEntry]))
    /\ UNCHANGED <<harFile, selectedEntry, editedRequest, replayResponse,
                   searchTerm, filterMethod, filterStatus, dialogOpen, loadPc,
                   inFlight, nextId, console, view>>

\* ------------------------------------------------------------------------
\* The session: everything a user and the pending calls can do.

Next ==
    \/ OpenHarFileStart
    \/ OpenHarFileCancel
    \/ OpenHarFileReadError
    \/ \E content \in FileContents : OpenHarFileLoad(content)
    \/ \E t \in SessionSearchTerms : SetSearchTerm(t)
    \/ \E m \in SessionFilterMethods : SetFilterMethod(m)
    \/ \E st \in SessionFilterStatuses : SetFilterStatus(st)
    \/ \E i \in 1..MaxEntries : SelectEntry(i)
    \/ DialogOpen
    \/ DialogClose
    \/ \E v \in MethodInputs : EditMethod(v)
    \/ \E v \in UrlInputs : EditUrl(v)
    \/ \E v \in HttpVersionInputs : EditHttpVersion(v)
    \/ \E text \in HeaderInputs : EditHeaders(text)
    \/ \E text \in BodyInputs : EditBody(text)
    \/ ReplayRequestSend
    \/ \E call \in inFlight : ReplayRequestResolve(call)
    \/ \E call \in inFlight, failure \in ReplayFailures :
           ReplayRequestFail(call, failure)
    \/ ExportRequestData

Spec == Init /\ [][Next]_vars

\* ------------------------------------------------------------------------
\* The renders of a loaded capture: every entry list of at most MaxEntries
\* entries of the pool is loaded, and the filter controls are then set in
\* every way; each state holds the render of the capture under the filter.

\* The state after one of the captures has been loaded into a fresh
\* component.
InitCapture(captures) ==
    /\ harFile \in {Some(HarDoc(es)) : es \in captures}
    /\ selectedEntry = 0
    /\ editedRequest = Null
    /\ replayResponse = Null
    /\ searchTerm = EmptyStr
    /\ filterMethod = sAll
    /\ filterStatus = sAll
    /\ dialogOpen = FALSE
    /\ loadPc = "idle"
    /\ inFlight = {}
    /\ nextId = 1
    /\ console = "none"
    /\ view = RenderView(harFile, 0, EmptyStr, sAll, sAll)
    /\ exported = Null

InitLoaded == InitCapture(SeqUpTo(EntryPool, MaxEntries))

NextRender ==
    \/ \E t \in SearchTerms : SetSearchTerm(t)
    \/ \E m \in FilterMethods : SetFilterMethod(m)
    \/ \E st \in FilterStatuses : SetFilterStatus(st)

RenderSpec == InitLoaded /\ [][NextRender]_vars

\* ------------------------------------------------------------------------
\* The status classes: captures whose entries differ in their status code
\* only, with the codes on both sides of every class boundary, under every
\* status filter.

StatusCodes == {199, 200, 299, 300, 399, 400, 499, 500, 599, 600}

WithStatus(entry, status) == [entry EXCEPT !.response.status = status]

StatusPool == {WithStatus(EntryA, st) : st \in StatusCodes}

InitStatus == InitCapture(SeqUpTo(StatusPool, MaxStatusEntries))

NextStatus == \E st \in FilterStatuses : SetFilterStatus(st)

StatusSpec == InitStatus /\ [][NextStatus]_vars

\* ------------------------------------------------------------------------
\* The method and content-type distributions: captures whose entries differ
\* in their method and response MIME type, among them methods and MIME
\* subtypes that are written with digits only, and captures with more
\* content types than the summary shows.

DistEntry(method, mimeType) ==
    MkEntry(Num(5), MkRequest(method, sUrlA, <<>>, Null), 200, Num(1),
            Some(mimeType), Null)

DistEntries ==
    <<DistEntry(sGET, sMimeJson), DistEntry(sPOST, sMimeHtml),
      DistEntry(s10, s10), DistEntry(s7, sMime7),
      DistEntry(sGET, sMimeCss), DistEntry(sPUT, sMimeXml)>>

DistPool == {DistEntries[i] : i \in 1..Len(DistEntries)}

\* The six entries, each with a content type of its own, followed or
\* preceded by one of them again.
LongCaptures ==
    {DistEntries \o <<e>> : e \in DistPool}
    \cup {<<e>> \o DistEntries : e \in DistPool}

InitDistribution ==
    InitCapture(SeqUpTo(DistPool, MaxEntries) \cup LongCaptures)

NextDistribution == \E m \in FilterMethods : SetFilterMethod(m)

DistributionSpec == InitDistribution /\ [][NextDistribution]_vars

\* ------------------------------------------------------------------------
\* The headers text area: captures of one or two entries whose requests
\* have no header, a plain header, a header whose value contains a colon, or
\* an HTTP/2 pseudo-header; an entry is selected and its headers are edited.

HeaderV == [name |-> <<"V">>, value |-> <<"x",":","y">>]

EntryV == [EntryA EXCEPT !.request.headers = <<HeaderV>>]

HeaderEntries == {EntryA, EntryB, EntryC, EntryV}

HeaderCaptures ==
    {<<e>> : e \in HeaderEntries} \cup
    {<<e1, e2>> : e1 \in HeaderEntries, e2 \in HeaderEntries}

InitHeaders == InitCapture(HeaderCaptures)

NextHeaders ==
    \/ \E i \in 1..MaxEntries : SelectEntry(i)
    \/ DialogOpen
    \/ DialogClose
    \/ \E text \in HeaderTexts : EditHeaders(text)
    \/ RetypeHeaders

HeaderSpec == InitHeaders /\ [][NextHeaders]_vars

\* ------------------------------------------------------------------------
\* The response content: captures of one entry whose response content has
\* one of the MIME types, or none, and one of the texts, or none; the entry
\* is then selected, which renders its formatted content.

ContentMimeTypes ==
    {Null} \cup {Some(m) : m \in
        {sMimeJson, sMimeJsonHtml, sMimeJsonUpper, sMimeHtml, sMimeXhtml,
         sMimeJs, sMimeJsHtml, sMimeCss, sMimeCssJs, sMimeXml, sMimeXmlCss,
         sMimePlain}}

ContentTexts ==
    {Null} \cup {Some(t) : t \in
        {EmptyStr, sTextArray, sTextEmptyArray, sTextObject, sTextNested,
         sTextNumber, sTextWord, sTextOpen, sTextLeadingZero, sTextComma}}

ContentEntry(mimeType, text) ==
    MkEntry(Num(5), ReqA, 200, Num(1), mimeType, text)

InitContent ==
    InitCapture({<<ContentEntry(m, t)>> :
                    m \in ContentMimeTypes, t \in ContentTexts})

NextContent == \E i \in 1..MaxEntries : SelectEntry(i)

ContentSpec == InitContent /\ [][NextContent]_vars

\* ------------------------------------------------------------------------
\* Properties.

\* The entries of the loaded capture, and the summary the render computed.
LoadedEntries == EntriesOf(Val(harFile))
SummaryShown == Loaded(harFile) /\ ~IsNull(view.summary)
AllTimesSet(es) == \A i \in 1..Len(es) : IsNum(es[i].time)

\* C1 (as claimed): the summary of a loaded capture with zero entries has
\* totalCount 0, totalBodyBytes 0, averageTime 0, no slowest entry and empty
\* method, status and content-type distributions, and computing it throws
\* nothing.
C1_EmptySummaryIsZero ==
    (SummaryShown /\ Len(LoadedEntries) = 0) =>
        LET sm == Val(view.summary)
        IN  /\ sm.totalCount = 0
            /\ IsZero(sm.totalBodyBytes)
            /\ IsZero(sm.averageTime)
            /\ sm.slowest = 0
            /\ Len(sm.methodCounts) = 0
            /\ Len(sm.statusGroups) = 0
            /\ Len(sm.contentTypes) = 0
            /\ ~sm.throws

Completes(call) == call \in inFlight /\ call \notin inFlight'

\* C3 (as claimed): when a call that was abandoned by selecting another
\* entry or by loading a capture completes, its result is discarded:
\* replayResponse keeps its value.
C3_AbandonedResultDiscarded ==
    [][\A call \in inFlight :
          (Completes(call) /\ call.entry # selectedEntry)
              => replayResponse' = replayResponse]_vars

\* C4 (as claimed): while two replayRequest calls are awaiting the backend,
\* the completion of one of them writes no variable the other one writes:
\* it leaves replayResponse alone.
C4_ConcurrentReplaysIndependent ==
    [][\A c1, c2 \in inFlight :
          (c1 # c2 /\ Completes(c1)) => replayResponse' = replayResponse]_vars

\* The session state a caller of the handlers can see.
session == <<harFile, selectedEntry, editedRequest, replayResponse>>

\* The step in which a call fails: it completes on the mounted component
\* and its result is not what replayResponse is set to.
Fails(call) ==
    /\ Completes(call)
    /\ ~RenderThrows(harFile)
    /\ replayResponse' # Some(ReplayResult(call))

\* C5 (as claimed): a replay that fails is surfaced: the step in which a
\* call fails writes an outcome into the visible session state, which is
\* then different from what it was while the call was pending.
C5_ReplayFailureSurfaced ==
    [][\A call \in inFlight : Fails(call) => session' # session]_vars

\* C6 (as claimed): a JSON document without a log.entries array is never
\* installed as harFile.
C6_SchemaViolationNotInstalled ==
    ~IsNull(harFile) => HasEntries(Val(harFile))

\* The step in which the pending openHarFile call ends.
LoadEnds == loadPc = "pending" /\ loadPc' = "idle"

\* C7 (as claimed): a load attempt either installs a capture, that is a
\* document with a log.entries array, or leaves harFile, selectedEntry,
\* editedRequest and replayResponse as they were.
C7_FailedLoadLeavesState ==
    [][LoadEnds => (Loaded(harFile') \/ session' = session)]_vars

\* C8: the loaded capture is immutable: harFile is written by nothing but a
\* load, so after any edits, replays, exports, filter changes and selections
\* it is what JSON.parse returned.
C8_CaptureImmutable ==
    [][harFile' # harFile => LoadEnds]_vars

\* A capture is loaded, every form field of the selected entry was edited, a
\* replay of it succeeded and another one failed, and the capture is still
\* the parsed one.
C8_Witness ==
    /\ harFile = Some(HarDoc(CaptureAB))
    /\ selectedEntry # 0
    /\ ~IsNull(editedRequest)
    /\ Val(editedRequest).method # SelectedRequest.method
    /\ Val(editedRequest).url # SelectedRequest.url
    /\ Val(editedRequest).httpVersion # SelectedRequest.httpVersion
    /\ Val(editedRequest).headers # SelectedRequest.headers
    /\ Val(editedRequest).postData # SelectedRequest.postData
    /\ ~IsNull(replayResponse)
    /\ console = "Error replaying request:"
    /\ inFlight = {}

\* C9 (as claimed): the overlay is discarded whenever another entry is
\* selected and whenever the edit dialog is closed.
C9_OverlayDiscardedOnClose ==
    [][/\ (selectedEntry' # selectedEntry => editedRequest' = Null)
       /\ ((dialogOpen /\ ~dialogOpen') => editedRequest' = Null)]_vars

\* C10: with searchTerm "", method "all" and status "all" the request list
\* holds exactly the entries of the capture, in capture order.
C10_DefaultFilterKeepsAll ==
    (Loaded(harFile) /\ searchTerm = EmptyStr /\ filterMethod = sAll
       /\ filterStatus = sAll) =>
        view.list = [i \in 1..Len(LoadedEntries) |-> i]

\* A render under the default filter that lists all the entries of a capture
\* of two or more entries with different methods.
C10_Witness ==
    /\ Loaded(harFile) /\ Len(LoadedEntries) >= 2
    /\ searchTerm = EmptyStr /\ filterMethod = sAll /\ filterStatus = sAll
    /\ Len(view.list) = Len(LoadedEntries)
    /\ LoadedEntries[1].request.method # LoadedEntries[2].request.method

\* The three predicates of the filter contract.  An entry passes the search
\* predicate when the term is empty or its lower-cased form occurs in the
\* lower-cased URL or method.
SearchPasses(entry, term) ==
    \/ term = EmptyStr
    \/ Includes(ToLowerCase(entry.request.url), ToLowerCase(term))
    \/ Includes(ToLowerCase(entry.request.method), ToLowerCase(term))

\* It passes the method predicate when the filter is "all" or is the
\* request method, character for character.
MethodPasses(entry, method) ==
    method = sAll \/ entry.request.method = method

\* The half-open range of status codes of a status class.
StatusClassRange(class) ==
    IF class = s2xx THEN 200..299
    ELSE IF class = s3xx THEN 300..399
    ELSE IF class = s4xx THEN 400..499
    ELSE IF class = s5xx THEN 500..599
    ELSE {}

\* It passes the status predicate when the filter is "all" or its status
\* lies in the range of the class.
StatusPasses(entry, class) ==
    class = sAll \/ entry.response.status \in StatusClassRange(class)

\* The positions 1..n of an entry list.
Positions(es) == [i \in 1..Len(es) |-> i]

\* C11: under every filter setting the request list holds, in capture
\* order, exactly the entries that pass the search predicate and the method
\* predicate and the status predicate; the method predicate compares the
\* method case-sensitively; an empty capture gives an empty list.
C11_FilterIsConjunction ==
    Loaded(harFile) =>
        view.list = SelectSeq(Positions(LoadedEntries),
                        LAMBDA i : /\ SearchPasses(LoadedEntries[i], searchTerm)
                                   /\ MethodPasses(LoadedEntries[i], filterMethod)
                                   /\ StatusPasses(LoadedEntries[i], filterStatus))

\* A render under a search term, a method filter and a status filter, none of
\* them the default, that keeps one entry of three and drops the others, one
\* of them for the search term and one whose method differs from the method
\* filter in letter case only.
C11_Witness ==
    /\ Loaded(harFile) /\ Len(LoadedEntries) = 3
    /\ searchTerm # EmptyStr /\ filterMethod = sGET /\ filterStatus = s2xx
    /\ Len(view.list) = 1
    /\ \E i \in 1..3 : LoadedEntries[i].request.method = sGetLower
    /\ \E i \in 1..3 : ~SearchPasses(LoadedEntries[i], searchTerm)

\* Position i of the capture is in the request list.
Listed(i) == \E j \in 1..Len(view.list) : view.list[j] = i

\* C12: under each of the status filters 2xx, 3xx, 4xx and 5xx an entry is
\* listed iff its status lies in [200,300), [300,400), [400,500), [500,600)
\* respectively; an entry whose status is outside 200..599 is listed under
\* the filter "all" only.
C12_StatusClassRanges ==
    Loaded(harFile) =>
        \A i \in 1..Len(LoadedEntries) :
            LET st == LoadedEntries[i].response.status
            IN  /\ filterStatus = s2xx => (Listed(i) <=> (200 <= st /\ st < 300))
                /\ filterStatus = s3xx => (Listed(i) <=> (300 <= st /\ st < 400))
                /\ filterStatus = s4xx => (Listed(i) <=> (400 <= st /\ st < 500))
                /\ filterStatus = s5xx => (Listed(i) <=> (500 <= st /\ st < 600))
                /\ (st < 200 \/ st > 599) => (Listed(i) <=> filterStatus = sAll)

\* A render under the filter 5xx of a capture with the statuses 599 and 600:
\* the entry with 599 is listed and the one with 600 is not.
C12_Witness ==
    /\ Loaded(harFile) /\ Len(LoadedEntries) = 2
    /\ filterStatus = s5xx
    /\ LoadedEntries[1].response.status = 600
    /\ LoadedEntries[2].response.status = 599
    /\ view.list = <<2>>

\* The upper-cased form of a string, and the entry whose URL and method are
\* upper-cased.
UpperChar(c) ==
    IF \E i \in 1..Len(LowerChars) : LowerChars[i] = c
    THEN UpperChars[CHOOSE i \in 1..Len(LowerChars) : LowerChars[i] = c]
    ELSE c
ToUpperCase(s) == [i \in 1..Len(s) |-> UpperChar(s[i])]
UpperCased(entry) ==
    [entry EXCEPT !.request.url = ToUpperCase(@),
                  !.request.method = ToUpperCase(@)]

\* C13: with the method and status filters at "all", an entry is listed iff
\* the search term is empty, or its lower-cased form is a substring of the
\* lower-cased URL, or of the lower-cased method; the list is the same when
\* the term, the URLs and the methods are written in upper case.
C13_SearchIgnoresCase ==
    (Loaded(harFile) /\ filterMethod = sAll /\ filterStatus = sAll) =>
        /\ \A i \in 1..Len(LoadedEntries) :
              Listed(i) <=>
                \/ searchTerm = EmptyStr
                \/ Includes(ToLowerCase(LoadedEntries[i].request.url),
                            ToLowerCase(searchTerm))
                \/ Includes(ToLowerCase(LoadedEntries[i].request.method),
                            ToLowerCase(searchTerm))
        /\ view.list = FilterEntries(
                [i \in 1..Len(LoadedEntries) |-> UpperCased(LoadedEntries[i])],
                ToUpperCase(searchTerm), sAll, sAll)
        /\ view.list = FilterEntries(LoadedEntries, ToLowerCase(searchTerm),
                                     sAll, sAll)

\* A render under the search term "get" that lists an entry for its method
\* GET, lists an entry for its URL "get", and drops a third entry.
C13_Witness ==
    /\ Loaded(harFile) /\ Len(LoadedEntries) = 3
    /\ filterMethod = sAll /\ filterStatus = sAll
    /\ searchTerm = <<"g","e","t">>
    /\ view.list = <<1, 2>>
    /\ LoadedEntries[1].request.method = sGET
    /\ LoadedEntries[2].request.url = sUrlBad
    /\ LoadedEntries[2].request.method = sPUT

\* The label the summary gives a status class.
ClassLabel(class) ==
    IF class = s2xx THEN "2xx Success"
    ELSE IF class = s3xx THEN "3xx Redirection"
    ELSE IF class = s4xx THEN "4xx Client Error"
    ELSE "5xx Server Error"

\* The count a distribution gives for a key, 0 when the key is not in it.
CountOf(dist, key) ==
    IF \E i \in 1..Len(dist) : dist[i].key = key
    THEN dist[CHOOSE i \in 1..Len(dist) : dist[i].key = key].count
    ELSE 0

RECURSIVE SumCounts(_)
SumCounts(dist) ==
    IF Len(dist) = 0 THEN 0 ELSE dist[1].count + SumCounts(Tail(dist))

\* C14: the status distribution counts every entry in exactly one of the
\* five buckets: in 2xx, 3xx, 4xx or 5xx when its status lies in [200,300),
\* [300,400), [400,500) or [500,600), in "Other" otherwise (so 199, 200, 299
\* and 300 are counted in Other, 2xx, 2xx and 3xx); the counts sum to the
\* entry count and only buckets with a count > 0 are in the result, each
\* once.
C14_StatusDistribution ==
    SummaryShown =>
        LET es == LoadedEntries
            dist == Val(view.summary).statusGroups
        IN  /\ \A class \in {s2xx, s3xx, s4xx, s5xx} :
                  CountOf(dist, ClassLabel(class)) =
                      Cardinality({i \in 1..Len(es) :
                          es[i].response.status \in StatusClassRange(class)})
            /\ CountOf(dist, "Other") =
                  Cardinality({i \in 1..Len(es) :
                      es[i].response.status \notin 200..599})
            /\ \A i \in 1..Len(es) :
                  /\ es[i].response.status = 199 => CountOf(dist, "Other") > 0
                  /\ es[i].response.status \in {200, 299} =>
                        CountOf(dist, "2xx Success") > 0
                  /\ es[i].response.status = 300 =>
                        CountOf(dist, "3xx Redirection") > 0
            /\ SumCounts(dist) = Len(es)
            /\ \A k \in 1..Len(dist) :
                  /\ dist[k].count > 0
                  /\ dist[k].key \in {ClassLabel(s2xx), ClassLabel(s3xx),
                                      ClassLabel(s4xx), ClassLabel(s5xx), "Other"}
                  /\ \A j \in 1..Len(dist) : dist[j].key = dist[k].key => j = k

\* The summary of a capture with the statuses 199 and 200: one entry in 2xx
\* and one in Other, and no other bucket.
C14_Witness ==
    /\ SummaryShown /\ Len(LoadedEntries) = 2
    /\ LoadedEntries[1].response.status = 199
    /\ LoadedEntries[2].response.status = 200
    /\ Val(view.summary).statusGroups =
          <<[key |-> "2xx Success", count |-> 1], [key |-> "Other", count |-> 1]>>

RECURSIVE FirstSeen(_)
\* The distinct members of a sequence in the order of their first occurrence.
FirstSeen(keys) ==
    IF Len(keys) = 0 THEN <<>>
    ELSE LET prev == FirstSeen(SubSeq(keys, 1, Len(keys) - 1))
         IN  IF \E i \in 1..Len(prev) : prev[i] = keys[Len(keys)] THEN prev
             ELSE Append(prev, keys[Len(keys)])

\* The methods of the loaded capture, in capture order.
LoadedMethods ==
    [i \in 1..Len(LoadedEntries) |-> LoadedEntries[i].request.method]

\* C15 (as claimed): for arbitrary method strings the method distribution
\* lists the distinct methods in the order in which each first occurs in the
\* capture, each with the number of entries that have it and that number as
\* a percentage of the entry count.
C15_MethodsInFirstSeenOrder ==
    SummaryShown =>
        LET dist == Val(view.summary).methodCounts
        IN  /\ [i \in 1..Len(dist) |-> dist[i].key] = FirstSeen(LoadedMethods)
            /\ \A i \in 1..Len(dist) :
                  /\ dist[i].count =
                        Cardinality({j \in 1..Len(LoadedMethods) :
                                        LoadedMethods[j] = dist[i].key})
                  /\ dist[i].percent =
                        PercentTenths(dist[i].count, Len(LoadedEntries))

\* The key of the content-type contract: the MIME type up to its first ';',
\* reduced to the part after its first '/' when it has one.
SubtypeKey(mimeType) ==
    LET primary == IF IndexOf(mimeType, ";") = 0 THEN mimeType
                   ELSE SubSeq(mimeType, 1, IndexOf(mimeType, ";") - 1)
    IN  IF IndexOf(primary, "/") = 0 THEN primary
        ELSE SubSeq(primary, IndexOf(primary, "/") + 1, Len(primary))

\* The content-type keys of the loaded capture, in capture order.
LoadedSubtypes ==
    [i \in 1..Len(LoadedEntries) |->
        SubtypeKey(Val(LoadedEntries[i].response.content.mimeType))]

\* The number of entries with a key, and the position of its first entry.
SubtypeCount(key) ==
    Cardinality({j \in 1..Len(LoadedSubtypes) : LoadedSubtypes[j] = key})
FirstPosition(key) ==
    CHOOSE j \in 1..Len(LoadedSubtypes) :
        /\ LoadedSubtypes[j] = key
        /\ \A i \in 1..(j - 1) : LoadedSubtypes[i] # key

\* Key a ranks before key b: it has more entries, or as many and was seen
\* first.
RanksBefore(a, b) ==
    \/ SubtypeCount(a) > SubtypeCount(b)
    \/ SubtypeCount(a) = SubtypeCount(b) /\ FirstPosition(a) < FirstPosition(b)

\* C16 (as claimed): the content-type distribution holds min(5, number of
\* distinct keys) keys with their entry counts, in descending count order
\* with equal counts in first-seen order, and every key left out ranks
\* after every key kept.
C16_ContentTypesTopFive ==
    (SummaryShown /\ ~Val(view.summary).throws) =>
        LET dist == Val(view.summary).contentTypes
            keys == FirstSeen(LoadedSubtypes)
        IN  /\ Len(dist) = IF Len(keys) < 5 THEN Len(keys) ELSE 5
            /\ \A i \in 1..Len(dist) :
                  /\ \E j \in 1..Len(keys) : keys[j] = dist[i].key
                  /\ dist[i].count = SubtypeCount(dist[i].key)
            /\ \A i, j \in 1..Len(dist) :
                  i < j => RanksBefore(dist[i].key, dist[j].key)
            /\ \A j \in 1..Len(keys) :
                  (\A i \in 1..Len(dist) : dist[i].key # keys[j]) =>
                      \A i \in 1..Len(dist) : RanksBefore(dist[i].key, keys[j])

\* A time with an unset time read as 0.
TimeOrZero(t) == IF IsNum(t) THEN t ELSE Num(0)

\* Equality of two numbers; NaN and undefined equal nothing.
NumEq(a, b) == IsNum(a) /\ IsNum(b) /\ a.n * b.d = b.n * a.d

RECURSIVE SumPresentTimes(_)
SumPresentTimes(es) ==
    IF Len(es) = 0 THEN Num(0)
    ELSE Add(SumPresentTimes(Tail(es)), TimeOrZero(es[1].time))

\* C17 (as claimed): for a capture in which some entries have no time, the
\* average response time is the sum of the present times over the entry
\* count, the slowest entry and the waterfall maximum are those obtained
\* with the missing times read as 0, and rendering the summary throws
\* nothing.
C17_UnsetTimeIsZero ==
    (SummaryShown /\ ~AllTimesSet(LoadedEntries)) =>
        LET es == LoadedEntries
            sm == Val(view.summary)
        IN  /\ NumEq(sm.averageTime, DivBy(SumPresentTimes(es), Len(es)))
            /\ sm.slowest \in 1..Len(es)
            /\ \A i \in 1..Len(es) :
                  Ge(TimeOrZero(es[sm.slowest].time), TimeOrZero(es[i].time))
            /\ \A i \in 1..Len(es) : Ge(view.maxTime, TimeOrZero(es[i].time))
            /\ \E i \in 1..Len(es) : NumEq(view.maxTime, TimeOrZero(es[i].time))
            /\ ~sm.throws

\* C18 (as claimed, on the captures with at least one entry whose entries
\* all have a time): whatever the MIME types and texts of the entries,
\* neither the summary nor the formatted content throws while rendering.
C18_RenderNeverThrows ==
    (Loaded(harFile) /\ Len(LoadedEntries) > 0 /\ AllTimesSet(LoadedEntries))
        => ~view.throws

\* The formatted content of the selected entry is shown.
ContentShown == Loaded(harFile) /\ selectedEntry # 0 /\ ~IsNull(view.content)
SelectedContent == LoadedEntries[selectedEntry].response.content

\* C19: for content with non-empty text whose MIME type contains "json":
\* when the text parses, the language is json and the text shown is the
\* 2-space-indented serialization of the parsed value (it parses to the
\* same value, formatting it again changes nothing, and the items of a
\* non-empty array start on lines of their own, indented by two spaces);
\* when it does not parse, the language is text and the text shown is the
\* raw text, whatever else the MIME type contains.
C19_JsonBranch ==
    (ContentShown /\ ~NoText(SelectedContent)
       /\ Includes(Val(SelectedContent.mimeType), sJson)) =>
        LET raw == Val(SelectedContent.text)
            parsed == JsonTextParse(raw)
            out == Val(view.content)
        IN  /\ ~out.noContent
            /\ parsed.ok =>
                  /\ out.language = "json"
                  /\ out.text = JsonStringify(parsed.val, 0)
                  /\ JsonTextParse(out.text).ok
                  /\ JsonTextParse(out.text).val = parsed.val
                  /\ FormatContent([SelectedContent EXCEPT
                                       !.text = Some(out.text)]) = out
                  /\ (parsed.val.t = "arr" /\ Len(parsed.val.items) > 0) =>
                        /\ SubSeq(out.text, 1, 4) = <<"[", "\n", " ", " ">>
                        /\ out.text[5] # " "
            /\ ~parsed.ok => (out.language = "text" /\ out.text = raw)

\* The text " [[1],2]" followed by a newline, as re-indented by
\* JSON.stringify(.., null, 2).
sTextNestedIndented ==
    <<"[","\n"," "," ","[","\n"," "," "," "," ","1","\n"," "," ","]",",","\n"," "," ","2","\n","]">>

\* The content of a selected entry with the MIME type "html+json" and a
\* text that parses: shown re-indented with the language json.
C19_Witness ==
    /\ ContentShown
    /\ SelectedContent.mimeType = Some(sMimeJsonHtml)
    /\ SelectedContent.text = Some(sTextNested)
    /\ Val(view.content) =
          [noContent |-> FALSE, language |-> "json",
           text |-> sTextNestedIndented]

\* The language of the first of json, html, javascript, css, xml that
\* occurs in a MIME type, text when none does.
FirstLanguage(mimeType) ==
    IF Includes(mimeType, sJson) THEN "json"
    ELSE IF Includes(mimeType, sHtml) THEN "html"
    ELSE IF Includes(mimeType, sJavascript) THEN "javascript"
    ELSE IF Includes(mimeType, sCss) THEN "css"
    ELSE IF Includes(mimeType, sXml) THEN "xml"
    ELSE "text"

\* C20: for content with non-empty text the language is that of the first
\* of json, html, javascript, css, xml that occurs in the MIME type (for
\* json: json or, when the text does not parse, text), and text when none
\* occurs; for every language but json the text is shown unchanged; content
\* with absent text gives "No content".
C20_LanguagePriority ==
    (Loaded(harFile) /\ selectedEntry # 0 /\ ~view.throws) =>
        LET out == Val(view.content)
            first == FirstLanguage(Val(SelectedContent.mimeType))
        IN  /\ IsNull(SelectedContent.text) => out.noContent
            /\ ~NoText(SelectedContent) =>
                  /\ ~out.noContent
                  /\ first # "json" =>
                        /\ out.language = first
                        /\ out.text = Val(SelectedContent.text)
                  /\ first = "json" => out.language \in {"json", "text"}
                  /\ out.language # "json" =>
                        out.text = Val(SelectedContent.text)

\* The content of a selected entry with the MIME type "xml+css" and a text:
\* shown unchanged with the language css.
C20_Witness ==
    /\ ContentShown
    /\ SelectedContent.mimeType = Some(sMimeXmlCss)
    /\ SelectedContent.text = Some(sTextWord)
    /\ Val(view.content) =
          [noContent |-> FALSE, language |-> "css", text |-> sTextWord]

\* A line split on its first colon: the name is the text before it and the
\* value the trimmed text after it; without a colon the name is the line
\* and the value is empty.
FirstColonSplit(line) ==
    IF IndexOf(line, ":") = 0 THEN [name |-> line, value |-> EmptyStr]
    ELSE [name |-> SubSeq(line, 1, IndexOf(line, ":") - 1),
          value |-> Trim(SubSeq(line, IndexOf(line, ":") + 1, Len(line)))]

\* C21: when the headers text area is set to a text, each line of it gives
\* the header whose name is the text before the line's first colon and whose
\* value is everything after that colon, further colons included, trimmed;
\* a line without a colon gives the header named by the whole line with the
\* empty value.
C21_SplitOnFirstColon ==
    [][\A text \in HeaderTexts :
          EditHeaders(text) =>
              Val(editedRequest').headers =
                  [i \in 1..Len(Split(text, "\n")) |->
                      FirstColonSplit(Split(text, "\n")[i])]]_vars

\* The overlay after the text "X: 1:2" / "Y" was typed: the header X with
\* the value "1:2" and the header Y with the empty value.
C21_Witness ==
    /\ ~IsNull(editedRequest)
    /\ Val(editedRequest).headers =
          <<[name |-> <<"X">>, value |-> <<"1",":","2">>],
            [name |-> <<"Y">>, value |-> EmptyStr]>>

\* The headers of the non-empty lines of a text, each split on its first
\* colon with the name and the value trimmed.
NonEmptyLineHeaders(text) ==
    LET nonEmpty == SelectSeq(Split(text, "\n"), LAMBDA line : Len(line) > 0)
    IN  [i \in 1..Len(nonEmpty) |->
            [name |-> Trim(FirstColonSplit(nonEmpty[i]).name),
             value |-> FirstColonSplit(nonEmpty[i]).value]]

\* C22 (as claimed): when the headers text area is set to a text, only its
\* non-empty lines give a header, and the name and the value of each header
\* are trimmed.
C22_NonEmptyLinesTrimmed ==
    [][\A text \in HeaderTexts :
          EditHeaders(text) =>
              Val(editedRequest').headers = NonEmptyLineHeaders(text)]_vars

\* C29 (as claimed): parsing the text formatHeaders gives for the captured
\* headers of the selected request yields those headers again, names and
\* values unchanged: when the text area's onChange runs on the text it shows
\* for an unedited request, the overlay's headers are the captured headers.
C29_HeadersRoundTrip ==
    [][(IsNull(editedRequest) /\ RetypeHeaders) =>
          Val(editedRequest').headers = SelectedRequest.headers]_vars

\* C23: backend calls are issued one per invocation of replayRequest and
\* none is issued otherwise: a step adds a call exactly when it is an
\* invocation (the invocation counter advances by one), the call it adds is
\* the single call of that invocation, and a step in which a call succeeds
\* or fails adds no call.
C23_OneCallPerInvocation ==
    [][/\ (inFlight' \ inFlight # {}) <=> (nextId' = nextId + 1)
       /\ nextId' = nextId + 1 =>
              /\ Cardinality(inFlight' \ inFlight) = 1
              /\ \A call \in inFlight' \ inFlight : call.id = nextId
              /\ inFlight \subseteq inFlight'
       /\ nextId' # nextId + 1 => nextId' = nextId
       /\ \A call \in inFlight : Completes(call) => inFlight' \subseteq inFlight]_vars

\* One invocation was made, its call failed and was logged, and no call is
\* awaited.
C23_Witness ==
    /\ nextId = 2
    /\ inFlight = {}
    /\ console = "Error replaying request:"

\* C24: the document "Export" produces for the selected entry has exactly
\* the request fields method, url, httpVersion, headers, queryString and
\* postData, the response fields status, statusText, httpVersion, headers
\* and content, and the timings, the server IP address, the start time and
\* the total time, each equal to the entry's value; it has no cookies and no
\* cache field, and the step leaves the capture as it was.
C24_ExportDocument ==
    [][ExportRequestData =>
          LET entry == LoadedEntries[selectedEntry]
              doc == Val(exported')
          IN  /\ DOMAIN doc = {"request", "response", "timing",
                               "serverIPAddress", "startedDateTime", "time"}
              /\ DOMAIN doc.request = {"method", "url", "httpVersion",
                                       "headers", "queryString", "postData"}
              /\ DOMAIN doc.response = {"status", "statusText", "httpVersion",
                                        "headers", "content"}
              /\ \A f \in DOMAIN doc.request : doc.request[f] = entry.request[f]
              /\ \A f \in DOMAIN doc.response :
                     doc.response[f] = entry.response[f]
              /\ doc.timing = entry.timings
              /\ doc.serverIPAddress = entry.serverIPAddress
              /\ doc.startedDateTime = entry.startedDateTime
              /\ doc.time = entry.time
              /\ harFile' = harFile]_vars

\* The document of the selected entry was just exported: an entry with a
\* request body, a response cookie, no response header and no server IP
\* address, after its method was edited in the form.
C24_Witness ==
    /\ ~IsNull(exported)
    /\ Val(exported).request.postData = Some(PostDataB)
    /\ Val(exported).response.status = 404
    /\ IsNull(Val(exported).serverIPAddress)
    /\ Loaded(harFile) /\ selectedEntry # 0
    /\ LoadedEntries[selectedEntry].response.cookies # <<>>
    /\ ~IsNull(editedRequest)
    /\ Val(editedRequest).method # Val(exported).request.method

\* The fields of a request the form has an input for, and the others.
FormFields == {"method", "url", "httpVersion", "headers", "postData"}
OtherFields == {"cookies", "queryString", "headersSize", "bodySize"}

\* C25: a step that sets the overlay while the selection stays changes at
\* most one form field of what the request was before the step (the overlay
\* if there was one, else the captured request of the selected entry, so the
\* first edit copies it) and no other field; the field an edit names holds
\* the value of that edit.
C25_EditsAccumulate ==
    [][(editedRequest' # editedRequest /\ selectedEntry' = selectedEntry
            /\ harFile' = harFile /\ ~IsNull(editedRequest')) =>
          LET before == IF IsNull(editedRequest)
                        THEN LoadedEntries[selectedEntry].request
                        ELSE Val(editedRequest)
              after == Val(editedRequest')
          IN  /\ DOMAIN after = FormFields \cup OtherFields
              /\ \A f \in OtherFields : after[f] = before[f]
              /\ Cardinality({f \in FormFields : after[f] # before[f]}) <= 1
              /\ \A v \in MethodInputs : EditMethod(v) => after.method = v
              /\ \A v \in UrlInputs : EditUrl(v) => after.url = v
              /\ \A v \in HttpVersionInputs :
                     EditHttpVersion(v) => after.httpVersion = v
              /\ \A text \in HeaderInputs :
                     EditHeaders(text) => after.headers = ParseHeaders(text)
              /\ \A text \in BodyInputs :
                     EditBody(text) => Val(after.postData).text = Some(text)]_vars

\* The overlay after the method, the URL and the body of the entry with a
\* request body were edited: the three edits are all there, and the HTTP
\* version, the headers and the MIME type of the body are the captured ones.
C25_Witness ==
    /\ Loaded(harFile) /\ selectedEntry # 0 /\ ~IsNull(editedRequest)
    /\ LoadedEntries[selectedEntry].request = ReqB
    /\ Val(editedRequest).method = sPUT
    /\ Val(editedRequest).url = EmptyStr
    /\ Val(Val(editedRequest).postData).text = Some(sBody2)
    /\ Val(Val(editedRequest).postData).mimeType = sMimeJson
    /\ Val(editedRequest).httpVersion = sHttp1
    /\ Val(editedRequest).headers = <<HeaderP, HeaderA>>

\* C26: the step in which a read file parses and is installed leaves no
\* entry selected, no overlay and no replay result; the step in which an
\* entry is clicked leaves that entry selected, no overlay and no replay
\* result; and no step moves the selection to an entry without clearing the
\* overlay and the replay result in the same step.
C26_ResetInSameStep ==
    [][/\ \A content \in FileContents :
              (OpenHarFileLoad(content) /\ ~JsonParseThrows(content)) =>
                  /\ harFile' = JsonParse(content)
                  /\ selectedEntry' = 0
                  /\ editedRequest' = Null
                  /\ replayResponse' = Null
       /\ \A i \in 1..MaxEntries :
              SelectEntry(i) =>
                  /\ selectedEntry' = i
                  /\ editedRequest' = Null
                  /\ replayResponse' = Null
       /\ (selectedEntry' # selectedEntry \/ harFile' # harFile) =>
              /\ editedRequest' = Null
              /\ replayResponse' = Null]_vars

\* A capture is loaded with nothing selected, no overlay and no replay
\* result after a request was sent: the load reset what the selection, the
\* edits and the replay before it had set.
C26_Witness ==
    /\ Loaded(harFile) /\ selectedEntry = 0
    /\ editedRequest = Null /\ replayResponse = Null
    /\ nextId > 1 /\ inFlight = {}
    /\ console = "none"

\* C27 (as claimed): in every reachable state the selected entry is null or
\* an entry of the loaded capture, the overlay and the replay result are
\* non-null only while an entry is selected, and while no capture is loaded
\* all three are null.
C27_SessionConsistent ==
    /\ selectedEntry # 0 =>
           /\ ~IsNull(harFile) /\ HasEntries(Val(harFile))
           /\ selectedEntry \in 1..Len(LoadedEntries)
    /\ ~IsNull(editedRequest) => selectedEntry # 0
    /\ ~IsNull(replayResponse) => selectedEntry # 0
    /\ IsNull(harFile) =>
           selectedEntry = 0 /\ IsNull(editedRequest) /\ IsNull(replayResponse)

\* The body of a request as text: the empty text when it has none.
BodyText(request) ==
    IF IsNull(PostDataText(request)) THEN EmptyStr
    ELSE Val(PostDataText(request))

\* C28 (as claimed): the request "Send Request" sends has the method, the
\* URL, the HTTP version and the body the form shows at that moment.
C28_SentIsShown ==
    [][ReplayRequestSend =>
          /\ CurrentRequest.method = FormMethod
          /\ CurrentRequest.url = FormUrl
          /\ CurrentRequest.httpVersion = FormHttpVersion
          /\ BodyText(CurrentRequest) = FormBody]_vars

\* C30 (as claimed): of two replays issued one after the other for the
\* selected entry that both succeed, the one issued second determines
\* replayResponse: once it holds the second result, the completion of the
\* replay issued first leaves it.
C30_LastIssuedWins ==
    [][\A call \in inFlight :
          (/\ Completes(call)
           /\ call.entry = selectedEntry
           /\ ~IsNull(replayResponse)
           /\ Val(replayResponse).entry = call.entry
           /\ Val(replayResponse).id > call.id
           /\ console' = console)
              => replayResponse' = replayResponse]_vars

====
